---- MODULE Spec2Model ----
(***************************************************************************)
(* State-machine model of streamlit_app.py: process_sprint_file (one step  *)
(* per statement of its try block, the validation gate, the except         *)
(* handler) and the part of main() that calls it, destructures its result  *)
(* and renders the outcome.  Every browser session runs main() in its own  *)
(* script run; all runs share the working directory and therefore the one  *)
(* file "temp_sprint.xlsx".                                                *)
(*                                                                         *)
(* The automation package (SprintDataProcessor, SprintCalculator,          *)
(* ExcelUpdater) is imported by the app but its code is not part of the    *)
(* source tree; its operations are modelled from the written design        *)
(* (sections 4.1 - 4.5) and are marked so in the model map.                *)
(***************************************************************************)
EXTENDS Integers, Sequences, FiniteSets, TLC

\* ------------------------------------------------------------ bounds
\* Largest number of work-item rows in an uploaded Data sheet.
MaxRows == 2
\* Number of runs the two-user specification lets the users start.
MaxRuns == 2

\* Work-item ids (two equal ids in a table make a duplicate).
Ids == {1, 2}
Sessions == {"s1", "s2"}
SprintNames == {"Sprint 4", "Sprint 5"}

\* ------------------------------------------------------------ values
\* Python's None.
None == [kind |-> "None"]
\* No file at temp_path.
NoFile == [kind |-> "absent"]
\* A file that was opened for writing (truncated) and not completely written.
Partial == [kind |-> "partial"]

\* One row of the work-item table; assignee "" is a missing assignee.
Rows == [id : Ids, assignee : {"", "dev"}]

RECURSIVE SeqsUpTo(_, _)
SeqsUpTo(S, n) ==
    IF n = 0 THEN {<<>>}
    ELSE LET shorter == SeqsUpTo(S, n - 1)
         IN  shorter \cup {Append(q, x) : q \in {p \in shorter : Len(p) = n - 1}, x \in S}

\* The work-item tables of the uploads.  Validation compares ids only with each
\* other, so the first row's id is fixed.
Tables == {t \in SeqsUpTo(Rows, MaxRows) : t = <<>> \/ t[1].id = 1}

\* A workbook: the Data sheet (sprint name cell, work-item table) and the five
\* output sheets.
Workbook(sprint, rows, analysis, kpi, staffCols, teamCols, cmmiRows) ==
    [kind |-> "xlsx", sprint |-> sprint, rows |-> rows, analysis |-> analysis,
     kpi |-> kpi, staffCols |-> staffCols, teamCols |-> teamCols,
     cmmiRows |-> cmmiRows]


\* ------------------------------------------------------------ validator
\* Positions of the rows that have no assignee.
MissingAssignee(azure) == {i \in 1..Len(azure) : azure[i].assignee = ""}

HasDuplicateId(azure) ==
    \E i, j \in 1..Len(azure) : i < j /\ azure[i].id = azure[j].id

RECURSIVE WarningList(_, _)
\* One warning per row without an assignee, rows i..Len(azure).
WarningList(azure, i) ==
    IF i > Len(azure) THEN <<>>
    ELSE IF azure[i].assignee = ""
         THEN <<[message |-> <<"missing assignee in row", i>>]>> \o WarningList(azure, i + 1)
         ELSE WarningList(azure, i + 1)

ErrorList(azure) ==
    (IF Len(azure) = 0 THEN <<[message |-> <<"empty work-item table", 0>>]>> ELSE <<>>)
    \o (IF HasDuplicateId(azure) THEN <<[message |-> <<"duplicate work-item id", 0>>]>> ELSE <<>>)
    \o (IF Len(azure) > 0 /\ Cardinality(MissingAssignee(azure)) = Len(azure)
        THEN <<[message |-> <<"no usable rows remain", 0>>]>> ELSE <<>>)

\* processor.validate_data(azure_data): the dict the app reads 'status',
\* 'errors' and 'warnings' from.
validate_data(azure) ==
    LET errs == ErrorList(azure)
        warns == WarningList(azure, 1)
    IN  [kind |-> "dict",
         status |-> IF errs # <<>> THEN "error"
                    ELSE IF warns # <<>> THEN "warning" ELSE "ok",
         errors |-> [kind |-> "list", items |-> errs],
         warnings |-> [kind |-> "list", items |-> warns]]

\* ------------------------------------------------------------ aggregator, calculator
\* Rows without an assignee are left out of the staff rollup.
aggregate_by_staff(azure) ==
    [kind |-> "agg", tasks |-> Len(azure) - Cardinality(MissingAssignee(azure))]
aggregate_by_team(azure) == [kind |-> "agg", tasks |-> Len(azure)]

calculate_staff_metrics(agg, azure) == [kind |-> "metrics", val |-> agg.tasks]
calculate_team_metrics(agg, azure) == [kind |-> "metrics", val |-> agg.tasks]
calculate_cmmi_measures(metadata, azure) ==
    [kind |-> "cmmi", sprint |-> metadata.sprint_name, val |-> Len(azure)]

\* ------------------------------------------------------------ workbook updater
\* A history sheet is a sequence of entries keyed by sprint name.
KeyPositions(hist, sprint) == {i \in 1..Len(hist) : hist[i].sprint = sprint}

\* Append an entry, or overwrite the one that has the same key.
OverwriteByKey(hist, entry) ==
    IF KeyPositions(hist, entry.sprint) = {}
    THEN Append(hist, entry)
    ELSE LET first == CHOOSE i \in KeyPositions(hist, entry.sprint) :
                          \A j \in KeyPositions(hist, entry.sprint) : i <= j
         IN  [hist EXCEPT ![first] = entry]

update_analysis_sheet(w, sprint, sm, tm) ==
    [w EXCEPT !.analysis = {a \in @ : a.sprint # sprint}
                           \cup {[sprint |-> sprint, staff |-> sm.val, team |-> tm.val]}]

\* The current-sprint sheet holds formulas that refer to the analysis sheet.
update_kpi_indicators_sheet(w, sm, tm, sprint) == [w EXCEPT !.kpi = sprint]

append_to_historical_staff(w, sm, sprint) ==
    [w EXCEPT !.staffCols = OverwriteByKey(@, [sprint |-> sprint, val |-> sm.val])]

append_to_historical_team(w, tm, sprint) ==
    [w EXCEPT !.teamCols = OverwriteByKey(@, [sprint |-> sprint, val |-> tm.val])]

update_cmmi_template(w, cm, sprint) ==
    [w EXCEPT !.cmmiRows = OverwriteByKey(@, [sprint |-> sprint, val |-> cm.val])]

\* ------------------------------------------------------------ uploads
\* What one complete successful run makes of a workbook.
Processed(w) ==
    LET sm == calculate_staff_metrics(aggregate_by_staff(w.rows), w.rows)
        tm == calculate_team_metrics(aggregate_by_team(w.rows), w.rows)
        cm == calculate_cmmi_measures([sprint_name |-> w.sprint], w.rows)
        w1 == update_analysis_sheet(w, w.sprint, sm, tm)
        w2 == update_kpi_indicators_sheet(w1, sm, tm, w.sprint)
        w3 == append_to_historical_staff(w2, sm, w.sprint)
        w4 == append_to_historical_team(w3, tm, w.sprint)
    IN  update_cmmi_template(w4, cm, w.sprint)

Accepted(w) == validate_data(w.rows).status # "error"

\* A workbook with no history yet.
Template(sprint, rows) == Workbook(sprint, rows, {}, "", <<>>, <<>>, <<>>)

\* A workbook in which Sprint 4 was analysed before, with new data pasted in.
Earlier == Processed(Template("Sprint 4", <<[id |-> 1, assignee |-> "dev"]>>))
Continued(sprint, rows) == [Earlier EXCEPT !.sprint = sprint, !.rows = rows]

FirstUploads ==
    {Template(sp, t) : sp \in SprintNames, t \in Tables}
    \cup {Continued(sp, t) : sp \in SprintNames, t \in Tables}

\* The files a user can upload: first uploads, and the analysed files that
\* were downloaded from an earlier run.
Uploads == FirstUploads \cup {Processed(w) : w \in {v \in FirstUploads : Accepted(v)}}

\* The uploads of the two-session specification: a small set that still has
\* a rejected, a warned and a clean workbook.
ConcUploads ==
    {Template("Sprint 4", <<>>),
     Template("Sprint 4", <<[id |-> 1, assignee |-> "dev"]>>),
     Continued("Sprint 5", <<[id |-> 1, assignee |-> "dev"], [id |-> 2, assignee |-> ""]>>)}


\* ------------------------------------------------------------ state
VARIABLES
    file,            \* content of temp_sprint.xlsx, shared by all runs
    pc,              \* per session: the statement its run is about to execute
    uploaded_file,   \* per session: the bytes held by the file_uploader widget
    wb,              \* locals of process_sprint_file, per session
    sprint_metadata,
    azure_data,
    validation,
    staff_agg,
    team_agg,
    staff_metrics,
    team_metrics,
    cmmi_measures,
    updater,         \* the workbook the ExcelUpdater holds in memory
    result,          \* the tuple process_sprint_file returned
    ui,              \* what main() has rendered in the session's page
    trace,           \* the stages the current run has completed, in order
    failed,          \* the stage at which the current run raised, or "none"
    runs             \* runs started in the two-user specification

locals == <<wb, sprint_metadata, azure_data, validation, staff_agg, team_agg,
            staff_metrics, team_metrics, cmmi_measures, updater>>
vars == <<file, pc, uploaded_file, locals, result, ui, trace, failed, runs>>

\* The page before anything was processed.
BlankPage ==
    [outcome |-> "blank", process_error |-> FALSE, errors |-> <<>>,
     warnings |-> <<>>, download |-> None]

\* The five updater writes, in the order of the calls.
UpdaterWrites ==
    <<"update_analysis_sheet", "update_kpi_indicators_sheet",
      "append_to_historical_staff", "append_to_historical_team",
      "update_cmmi_template">>

\* The statements of the try block, in program order.
TryStages ==
    <<"write_temp", "load_workbook", "extract_sprint_metadata", "process_azure_data",
      "validate_data", "get_capacity_data", "aggregate_by_staff", "aggregate_by_team",
      "calculate_staff_metrics", "calculate_team_metrics", "calculate_cmmi_measures",
      "ExcelUpdater">> \o UpdaterWrites \o <<"save", "read_processed">>

Range(q) == {q[i] : i \in 1..Len(q)}

Init ==
    /\ file = NoFile
    /\ pc = [s \in Sessions |-> "idle"]
    /\ uploaded_file = [s \in Sessions |-> None]
    /\ wb = [s \in Sessions |-> None]
    /\ sprint_metadata = [s \in Sessions |-> None]
    /\ azure_data = [s \in Sessions |-> None]
    /\ validation = [s \in Sessions |-> None]
    /\ staff_agg = [s \in Sessions |-> None]
    /\ team_agg = [s \in Sessions |-> None]
    /\ staff_metrics = [s \in Sessions |-> None]
    /\ team_metrics = [s \in Sessions |-> None]
    /\ cmmi_measures = [s \in Sessions |-> None]
    /\ updater = [s \in Sessions |-> None]
    /\ result = [s \in Sessions |-> <<>>]
    /\ ui = [s \in Sessions |-> BlankPage]
    /\ trace = [s \in Sessions |-> <<>>]
    /\ failed = [s \in Sessions |-> "none"]
    /\ runs = 0

\* A stage completed: the run moves on to the next statement.
Done(s, stage, next) ==
    /\ pc' = [pc EXCEPT ![s] = next]
    /\ trace' = [trace EXCEPT ![s] = Append(@, stage)]


\* ------------------------------------------------------------ main(): the call
\* The state of a session whose page shows no upload and no result.
Cleared(s) ==
    /\ pc[s] = "idle"
    /\ uploaded_file[s] = None
    /\ ui[s] = BlankPage
    /\ trace[s] = <<>>

\* The user has chosen file u, which reran the script and left a page without
\* results, and presses "Process Sprint Data": main() calls
\* process_sprint_file(uploaded_file).
Begin(s, u) ==
    /\ Cleared(s)
    /\ pc' = [pc EXCEPT ![s] = "write_temp"]
    /\ uploaded_file' = [uploaded_file EXCEPT ![s] = u]
    /\ UNCHANGED <<file, locals, result, ui, trace, failed>>

\* One user at a time: a run starts only while no other session has a run
\* in progress or a result on its page.
StartAlone(s) ==
    /\ \A t \in Sessions \ {s} : Cleared(t)
    /\ \E u \in Uploads : Begin(s, u)
    /\ UNCHANGED runs

\* Sessions start runs independently of each other.
StartAny(s) ==
    /\ runs < MaxRuns
    /\ runs' = runs + 1
    /\ \E u \in ConcUploads : Begin(s, u)

\* The user changes the file in the uploader: the script reruns without the
\* button pressed, nothing is processed and the earlier results leave the page.
ClearUpload(s) ==
    /\ pc[s] = "idle"
    /\ ~Cleared(s)
    /\ uploaded_file' = [uploaded_file EXCEPT ![s] = None]
    /\ wb' = [wb EXCEPT ![s] = None]
    /\ sprint_metadata' = [sprint_metadata EXCEPT ![s] = None]
    /\ azure_data' = [azure_data EXCEPT ![s] = None]
    /\ validation' = [validation EXCEPT ![s] = None]
    /\ staff_agg' = [staff_agg EXCEPT ![s] = None]
    /\ team_agg' = [team_agg EXCEPT ![s] = None]
    /\ staff_metrics' = [staff_metrics EXCEPT ![s] = None]
    /\ team_metrics' = [team_metrics EXCEPT ![s] = None]
    /\ cmmi_measures' = [cmmi_measures EXCEPT ![s] = None]
    /\ updater' = [updater EXCEPT ![s] = None]
    /\ result' = [result EXCEPT ![s] = <<>>]
    /\ ui' = [ui EXCEPT ![s] = BlankPage]
    /\ trace' = [trace EXCEPT ![s] = <<>>]
    /\ failed' = [failed EXCEPT ![s] = "none"]
    /\ UNCHANGED <<runs, file, pc>>

\* ------------------------------------------------------------ process_sprint_file
\* with open(temp_path, "wb") as f: f.write(uploaded_file.getbuffer())
WriteTemp(s) ==
    /\ pc[s] = "write_temp"
    /\ file' = uploaded_file[s]
    /\ Done(s, "write_temp", "load_workbook")
    /\ UNCHANGED <<runs, uploaded_file, locals, result, ui, failed>>

\* processor, calculator = ...; wb = openpyxl.load_workbook(temp_path)
LoadWorkbook(s) ==
    /\ pc[s] = "load_workbook"
    /\ file.kind = "xlsx"
    /\ wb' = [wb EXCEPT ![s] = file]
    /\ Done(s, "load_workbook", "extract_sprint_metadata")
    /\ UNCHANGED <<runs, file, uploaded_file, sprint_metadata, azure_data, validation,
                   staff_agg, team_agg, staff_metrics, team_metrics, cmmi_measures,
                   updater, result, ui, failed>>

\* sprint_metadata = processor.extract_sprint_metadata(wb['Data'])
ExtractMetadata(s) ==
    /\ pc[s] = "extract_sprint_metadata"
    /\ sprint_metadata' = [sprint_metadata EXCEPT ![s] =
                              [kind |-> "dict", sprint_name |-> wb[s].sprint]]
    /\ Done(s, "extract_sprint_metadata", "process_azure_data")
    /\ UNCHANGED <<runs, file, uploaded_file, wb, azure_data, validation,
                   staff_agg, team_agg, staff_metrics, team_metrics, cmmi_measures,
                   updater, result, ui, failed>>

\* df_azure = pd.read_excel(temp_path, ...): the table is read from the file
\* again, not from wb.
ProcessAzureData(s) ==
    /\ pc[s] = "process_azure_data"
    /\ file.kind = "xlsx"
    /\ azure_data' = [azure_data EXCEPT ![s] = [kind |-> "table", rows |-> file.rows]]
    /\ Done(s, "process_azure_data", "validate_data")
    /\ UNCHANGED <<runs, file, uploaded_file, wb, sprint_metadata, validation,
                   staff_agg, team_agg, staff_metrics, team_metrics, cmmi_measures,
                   updater, result, ui, failed>>

\* Mutants of the gate: it lets every validation result through; it stops a
\* run on a warning as well.
GateNeverAborts(v) == FALSE
GateAbortsOnWarning(v) == v.status # "ok"

\* if validation['status'] == 'error':
GateAborts(v) == v.status = "error"

\* return None, validation['errors'], None, None
GateResult(v) == <<None, v.errors, None, None>>

\* validation = processor.validate_data(azure_data), and the gate after it.
ValidateData(s) ==
    /\ pc[s] = "validate_data"
    /\ LET v == validate_data(azure_data[s].rows)
       IN  /\ validation' = [validation EXCEPT ![s] = v]
           /\ IF GateAborts(v)
              THEN /\ result' = [result EXCEPT ![s] = GateResult(v)]
                   /\ Done(s, "validate_data", "unpack")
              ELSE /\ result' = result
                   /\ Done(s, "validate_data", "get_capacity_data")
    /\ UNCHANGED <<runs, file, uploaded_file, wb, sprint_metadata, azure_data,
                   staff_agg, team_agg, staff_metrics, team_metrics, cmmi_measures,
                   updater, ui, failed>>

\* capacity_data = processor.get_capacity_data(wb['Capacity']); the capacity
\* values take no part in what the app does with the result.
GetCapacityData(s) ==
    /\ pc[s] = "get_capacity_data"
    /\ Done(s, "get_capacity_data", "aggregate_by_staff")
    /\ UNCHANGED <<runs, file, uploaded_file, locals, result, ui, failed>>

AggregateByStaff(s) ==
    /\ pc[s] = "aggregate_by_staff"
    /\ staff_agg' = [staff_agg EXCEPT ![s] = aggregate_by_staff(azure_data[s].rows)]
    /\ Done(s, "aggregate_by_staff", "aggregate_by_team")
    /\ UNCHANGED <<runs, file, uploaded_file, wb, sprint_metadata, azure_data, validation,
                   team_agg, staff_metrics, team_metrics, cmmi_measures,
                   updater, result, ui, failed>>

AggregateByTeam(s) ==
    /\ pc[s] = "aggregate_by_team"
    /\ team_agg' = [team_agg EXCEPT ![s] = aggregate_by_team(azure_data[s].rows)]
    /\ Done(s, "aggregate_by_team", "calculate_staff_metrics")
    /\ UNCHANGED <<runs, file, uploaded_file, wb, sprint_metadata, azure_data, validation,
                   staff_agg, staff_metrics, team_metrics, cmmi_measures,
                   updater, result, ui, failed>>

CalculateStaffMetrics(s) ==
    /\ pc[s] = "calculate_staff_metrics"
    /\ staff_metrics' = [staff_metrics EXCEPT ![s] =
                            calculate_staff_metrics(staff_agg[s], azure_data[s].rows)]
    /\ Done(s, "calculate_staff_metrics", "calculate_team_metrics")
    /\ UNCHANGED <<runs, file, uploaded_file, wb, sprint_metadata, azure_data, validation,
                   staff_agg, team_agg, team_metrics, cmmi_measures,
                   updater, result, ui, failed>>

CalculateTeamMetrics(s) ==
    /\ pc[s] = "calculate_team_metrics"
    /\ team_metrics' = [team_metrics EXCEPT ![s] =
                           calculate_team_metrics(team_agg[s], azure_data[s].rows)]
    /\ Done(s, "calculate_team_metrics", "calculate_cmmi_measures")
    /\ UNCHANGED <<runs, file, uploaded_file, wb, sprint_metadata, azure_data, validation,
                   staff_agg, team_agg, staff_metrics, cmmi_measures,
                   updater, result, ui, failed>>

CalculateCmmiMeasures(s) ==
    /\ pc[s] = "calculate_cmmi_measures"
    /\ cmmi_measures' = [cmmi_measures EXCEPT ![s] =
                            calculate_cmmi_measures(sprint_metadata[s], azure_data[s].rows)]
    /\ Done(s, "calculate_cmmi_measures", "ExcelUpdater")
    /\ UNCHANGED <<runs, file, uploaded_file, wb, sprint_metadata, azure_data, validation,
                   staff_agg, team_agg, staff_metrics, team_metrics,
                   updater, result, ui, failed>>


\* Mutant: the call of update_analysis_sheet is missing.
NewUpdaterSkipsAnalysis(s) ==
    /\ pc[s] = "ExcelUpdater"
    /\ file.kind = "xlsx"
    /\ updater' = [updater EXCEPT ![s] = file]
    /\ Done(s, "ExcelUpdater", "update_kpi_indicators_sheet")
    /\ UNCHANGED <<runs, file, uploaded_file, wb, sprint_metadata, azure_data, validation,
                   staff_agg, team_agg, staff_metrics, team_metrics, cmmi_measures,
                   result, ui, failed>>

\* updater = ExcelUpdater(temp_path); sprint_name = sprint_metadata['sprint_name'].
\* The updater opens the workbook file a third time and keeps it in memory.
NewUpdater(s) ==
    /\ pc[s] = "ExcelUpdater"
    /\ file.kind = "xlsx"
    /\ updater' = [updater EXCEPT ![s] = file]
    /\ Done(s, "ExcelUpdater", "update_analysis_sheet")
    /\ UNCHANGED <<runs, file, uploaded_file, wb, sprint_metadata, azure_data, validation,
                   staff_agg, team_agg, staff_metrics, team_metrics, cmmi_measures,
                   result, ui, failed>>

\* One updater write: the in-memory workbook becomes w, the file is untouched.
Write(s, stage, next, w) ==
    /\ pc[s] = stage
    /\ updater' = [updater EXCEPT ![s] = w]
    /\ Done(s, stage, next)
    /\ UNCHANGED <<runs, file, uploaded_file, wb, sprint_metadata, azure_data, validation,
                   staff_agg, team_agg, staff_metrics, team_metrics, cmmi_measures,
                   result, ui, failed>>

UpdateAnalysisSheet(s) ==
    Write(s, "update_analysis_sheet", "update_kpi_indicators_sheet",
          update_analysis_sheet(updater[s], sprint_metadata[s].sprint_name,
                                staff_metrics[s], team_metrics[s]))

\* Mutant: the write is followed by a save of its own.
UpdateKpiSavesEarly(s) ==
    LET w == update_kpi_indicators_sheet(updater[s], staff_metrics[s], team_metrics[s],
                                         sprint_metadata[s].sprint_name)
    IN  /\ pc[s] = "update_kpi_indicators_sheet"
        /\ updater' = [updater EXCEPT ![s] = w]
        /\ file' = w
        /\ pc' = [pc EXCEPT ![s] = "append_to_historical_staff"]
        /\ trace' = [trace EXCEPT ![s] = @ \o <<"update_kpi_indicators_sheet", "save">>]
        /\ UNCHANGED <<runs, uploaded_file, wb, sprint_metadata, azure_data, validation,
                       staff_agg, team_agg, staff_metrics, team_metrics, cmmi_measures,
                       result, ui, failed>>

UpdateKpiIndicatorsSheet(s) ==
    Write(s, "update_kpi_indicators_sheet", "append_to_historical_staff",
          update_kpi_indicators_sheet(updater[s], staff_metrics[s], team_metrics[s],
                                      sprint_metadata[s].sprint_name))

AppendToHistoricalStaff(s) ==
    Write(s, "append_to_historical_staff", "append_to_historical_team",
          append_to_historical_staff(updater[s], staff_metrics[s],
                                     sprint_metadata[s].sprint_name))

\* Mutant: the team metrics go to the staff history sheet (the call above,
\* copied and half edited).
AppendTeamToStaffSheet(s) ==
    Write(s, "append_to_historical_team", "update_cmmi_template",
          append_to_historical_staff(updater[s], team_metrics[s],
                                     sprint_metadata[s].sprint_name))

AppendToHistoricalTeam(s) ==
    Write(s, "append_to_historical_team", "update_cmmi_template",
          append_to_historical_team(updater[s], team_metrics[s],
                                    sprint_metadata[s].sprint_name))

UpdateCmmiTemplate(s) ==
    Write(s, "update_cmmi_template", "save",
          update_cmmi_template(updater[s], cmmi_measures[s],
                               sprint_metadata[s].sprint_name))

\* updater.save(): the in-memory workbook replaces the file at temp_path.
Save(s) ==
    /\ pc[s] = "save"
    /\ file' = updater[s]
    /\ Done(s, "save", "read_processed")
    /\ UNCHANGED <<runs, uploaded_file, locals, result, ui, failed>>

\* processed_data = f.read(); return processed_data, validation, ...
ReadProcessed(s) ==
    /\ pc[s] = "read_processed"
    /\ file.kind # "absent"
    /\ result' = [result EXCEPT ![s] =
                     <<file, validation[s], staff_metrics[s], team_metrics[s],
                       cmmi_measures[s]>>]
    /\ Done(s, "read_processed", "unpack")
    /\ UNCHANGED <<runs, file, uploaded_file, locals, ui, failed>>

\* A statement of the try block raises.  A statement that was writing the
\* file leaves it as it was (the open failed) or truncated (the write failed).
Raise(s) ==
    /\ pc[s] \in Range(TryStages)
    /\ failed' = [failed EXCEPT ![s] = pc[s]]
    /\ pc' = [pc EXCEPT ![s] = "except"]
    /\ file' \in IF pc[s] \in {"write_temp", "save"} THEN {file, Partial} ELSE {file}
    /\ UNCHANGED <<runs, uploaded_file, locals, result, ui, trace>>

\* Mutant: the handler hands back the workbook the updater holds.
ExceptReturnsWorkbook(s) ==
    /\ pc[s] = "except"
    /\ ui' = [ui EXCEPT ![s].process_error = TRUE]
    /\ result' = [result EXCEPT ![s] = <<updater[s], None, None, None, None>>]
    /\ pc' = [pc EXCEPT ![s] = "unpack"]
    /\ UNCHANGED <<runs, file, uploaded_file, locals, trace, failed>>

\* except Exception as e: st.error(...); return None, None, None, None, None
Except(s) ==
    /\ pc[s] = "except"
    /\ ui' = [ui EXCEPT ![s].process_error = TRUE]
    /\ result' = [result EXCEPT ![s] = <<None, None, None, None, None>>]
    /\ pc' = [pc EXCEPT ![s] = "unpack"]
    /\ UNCHANGED <<runs, file, uploaded_file, locals, trace, failed>>

\* ------------------------------------------------------------ main(): the result
\* Python's truth value of an object.
Truthy(v) ==
    CASE v.kind = "None" -> FALSE
      [] v.kind = "list" -> v.items # <<>>
      [] OTHER -> TRUE

\* key in v: a key of a dict; for a list, an element equal to the key (the
\* elements here are issue dicts, never a string).
Contains(v, key) ==
    CASE v.kind = "dict" -> key \in DOMAIN v
      [] OTHER -> FALSE

RECURSIVE Messages(_)
\* issue['message'] for every issue of a list, in order.
Messages(items) ==
    IF items = <<>> THEN <<>> ELSE <<Head(items).message>> \o Messages(Tail(items))

\* processed_data, validation, staff_metrics, team_metrics, cmmi_measures = result
Unpack(s) ==
    /\ pc[s] = "unpack"
    /\ IF Len(result[s]) = 5
       THEN /\ pc' = [pc EXCEPT ![s] = "render"]
            /\ ui' = ui
       ELSE \* ValueError: the script run ends with the exception on the page
            /\ pc' = [pc EXCEPT ![s] = "idle"]
            /\ ui' = [ui EXCEPT ![s].outcome = "exception"]
    /\ UNCHANGED <<runs, file, uploaded_file, locals, result, trace, failed>>

\* if processed_data is None: ... else: ...
Render(s) ==
    /\ pc[s] = "render"
    /\ LET processed_data == result[s][1]
           v == result[s][2]
       IN  IF processed_data = None
           THEN ui' = [ui EXCEPT ![s].outcome = "failed",
                                 ![s].errors =
                                     IF Truthy(v) /\ Contains(v, "errors")
                                     THEN Messages(v.errors.items) ELSE <<>>]
           ELSE ui' = [ui EXCEPT ![s].outcome = "success",
                                 ![s].warnings =
                                     IF Truthy(v) /\ Contains(v, "warnings")
                                        /\ Truthy(v.warnings)
                                     THEN Messages(v.warnings.items) ELSE <<>>,
                                 ![s].download = processed_data]
    /\ pc' = [pc EXCEPT ![s] = "idle"]
    /\ UNCHANGED <<runs, file, uploaded_file, locals, result, trace, failed>>

\* ------------------------------------------------------------ specifications
Step(s) ==
    \/ WriteTemp(s) \/ LoadWorkbook(s) \/ ExtractMetadata(s) \/ ProcessAzureData(s)
    \/ ValidateData(s) \/ GetCapacityData(s)
    \/ AggregateByStaff(s) \/ AggregateByTeam(s)
    \/ CalculateStaffMetrics(s) \/ CalculateTeamMetrics(s) \/ CalculateCmmiMeasures(s)
    \/ NewUpdater(s)
    \/ UpdateAnalysisSheet(s) \/ UpdateKpiIndicatorsSheet(s)
    \/ AppendToHistoricalStaff(s) \/ AppendToHistoricalTeam(s) \/ UpdateCmmiTemplate(s)
    \/ Save(s) \/ ReadProcessed(s)
    \/ Raise(s) \/ Except(s)
    \/ Unpack(s) \/ Render(s)
    \/ ClearUpload(s)

\* One user at a time.
Next == \E s \in Sessions : StartAlone(s) \/ Step(s)
Spec == Init /\ [][Next]_vars

\* Two users whose runs interleave.
NextConc == \E s \in Sessions : StartAny(s) \/ Step(s)
SpecConc == Init /\ [][NextConc]_vars


\* ------------------------------------------------------------ properties
\* process_sprint_file has returned to main(), and the page still shows the run.
Returned(s) == pc[s] \in {"unpack", "render", "idle"} /\ result[s] # <<>>

\* The status of a validation result; "none" before validate_data has run.
Status(v) == IF v.kind = "dict" THEN v.status ELSE "none"

\* The stages that follow the validation gate.
AfterGate == Range(SubSeq(TryStages, 6, Len(TryStages)))

Occurrences(q, x) == Cardinality({i \in 1..Len(q) : q[i] = x})

\* q[i] for the first i with q[i] = x.
Position(q, x) == CHOOSE i \in 1..Len(q) : q[i] = x /\ \A j \in 1..(i - 1) : q[j] # x

\* C1: workbook bytes are returned only by a run in which every stage up to
\* and including save completed; a run that raised, or whose validation
\* status is 'error', returns None as its first component.
NoPartialWorkbook ==
    \A s \in Sessions :
        Returned(s) =>
            /\ result[s][1] # None =>
                   /\ failed[s] = "none"
                   /\ Status(validation[s]) \in {"ok", "warning"}
                   /\ Range(TryStages) \subseteq Range(trace[s])
                   /\ result[s][1] = updater[s]
            /\ (failed[s] # "none" \/ Status(validation[s]) = "error") =>
                   result[s][1] = None

\* A run raised in the middle of the updater writes, with the workbook in
\* memory already changed, and returned None.
PartialUpdateDiscarded ==
    \E s \in Sessions :
        /\ Returned(s)
        /\ failed[s] = "append_to_historical_team"
        /\ updater[s] # uploaded_file[s]
        /\ result[s][1] = None

\* C2: a validation result with status 'error' stops the run at the gate: no
\* aggregation, calculation, updater, write or save, and the file still
\* holds the uploaded bytes.
ErrorStopsAtGate ==
    \A s \in Sessions :
        Status(validation[s]) = "error" =>
            /\ Range(trace[s]) \cap AfterGate = {}
            /\ pc[s] \notin AfterGate
            /\ staff_agg[s] = None /\ team_agg[s] = None
            /\ staff_metrics[s] = None /\ team_metrics[s] = None
            /\ cmmi_measures[s] = None
            /\ updater[s] = None
            /\ file = uploaded_file[s]

\* A run on an empty work-item table has ended.
EmptyTableRejected ==
    \E s \in Sessions :
        /\ pc[s] = "idle"
        /\ Status(validation[s]) = "error"
        /\ azure_data[s].rows = <<>>

\* C3: main()'s five-way destructuring of the result never faults.
DestructuringNeverFaults ==
    \A s \in Sessions :
        /\ Returned(s) => Len(result[s]) = 5
        /\ ui[s].outcome # "exception"

\* C4: save happens at most once and only after the five updater writes; a
\* run that raises in one of the five never saves and leaves the file as
\* uploaded.
SaveOnlyAfterAllWrites ==
    \A s \in Sessions :
        /\ Occurrences(trace[s], "save") <= 1
        /\ "save" \in Range(trace[s]) =>
               \A i \in 1..Len(UpdaterWrites) :
                   /\ Occurrences(trace[s], UpdaterWrites[i]) = 1
                   /\ Position(trace[s], UpdaterWrites[i]) < Position(trace[s], "save")
        /\ pc[s] \in Range(UpdaterWrites) \cup {"save"} => file = uploaded_file[s]
        /\ failed[s] \in Range(UpdaterWrites) =>
               /\ "save" \notin Range(trace[s])
               /\ file = uploaded_file[s]

\* A run raised in the last of the five writes, after the other four had
\* changed the workbook in memory.
LastWriteFailed ==
    \E s \in Sessions :
        /\ failed[s] = "update_cmmi_template"
        /\ pc[s] = "idle"
        /\ updater[s] # uploaded_file[s]

\* C5: under any interleaving of two runs, what a run loads, reads, updates
\* and returns is derived from its own upload, and the file holds its own
\* workbook from its write up to its save.
RunOwnsWorkbook ==
    \A s \in Sessions :
        /\ wb[s] # None => wb[s] = uploaded_file[s]
        /\ azure_data[s] # None => azure_data[s].rows = uploaded_file[s].rows
        /\ pc[s] = "update_analysis_sheet" => updater[s] = uploaded_file[s]
        /\ pc[s] \in Range(SubSeq(TryStages, 2, Len(TryStages) - 1)) =>
               file = uploaded_file[s]
        /\ (Returned(s) /\ Len(result[s]) = 5 /\ result[s][1] # None) =>
               result[s][1] = Processed(uploaded_file[s])

\* C6: a run whose validation status is not 'error' and in which nothing
\* raises completes every stage, returns the updated bytes with the whole
\* validation result, and main() shows success and every warning message.
WarningsDoNotAbort ==
    \A s \in Sessions :
        (Status(validation[s]) \in {"ok", "warning"} /\ failed[s] = "none") =>
            /\ pc[s] \in AfterGate \cup {"unpack", "render", "idle"}
            /\ Returned(s) =>
                   /\ trace[s] = TryStages
                   /\ Len(result[s]) = 5
                   /\ result[s][1] = Processed(uploaded_file[s])
                   /\ result[s][2] = validate_data(uploaded_file[s].rows)
            /\ pc[s] = "idle" =>
                   /\ ui[s].outcome = "success"
                   /\ ui[s].warnings = Messages(validation[s].warnings.items)
                   /\ ui[s].download = result[s][1]

\* A run with a warning has ended in success with the warning on the page.
WarningShownWithSuccess ==
    \E s \in Sessions :
        /\ pc[s] = "idle"
        /\ Status(validation[s]) = "warning"
        /\ ui[s].outcome = "success"
        /\ Len(ui[s].warnings) >= 1

\* The upload is the workbook an earlier successful run on the same data
\* returned.
IsReupload(u) == \E w \in FirstUploads : Accepted(w) /\ u = Processed(w)

ColumnsFor(w, sprint) ==
    <<Cardinality(KeyPositions(w.staffCols, sprint)),
      Cardinality(KeyPositions(w.teamCols, sprint)),
      Cardinality(KeyPositions(w.cmmiRows, sprint))>>

UploadDeletedAfterRun ==
    \A s \in Sessions : Returned(s) => file = NoFile

\* The stages the ordering claim names, in the order it gives.
ClaimedOrder ==
    <<"extract_sprint_metadata", "process_azure_data", "validate_data",
      "aggregate_by_staff", "aggregate_by_team",
      "calculate_staff_metrics", "calculate_team_metrics", "calculate_cmmi_measures",
      "update_analysis_sheet", "update_kpi_indicators_sheet",
      "append_to_historical_staff", "append_to_historical_team",
      "update_cmmi_template", "save", "read_processed">>

InClaimedOrder(x) == x \in Range(ClaimedOrder)

\* C9: in a successful run each named stage happens exactly once and in the
\* fixed order, the analysis sheet before the Kpi Indicators sheet and the
\* read of the returned bytes after save.
StagesInFixedOrder ==
    \A s \in Sessions :
        (Returned(s) /\ Len(result[s]) = 5 /\ result[s][1] # None) =>
            SelectSeq(trace[s], InClaimedOrder) = ClaimedOrder

\* A successful run has ended.
RunSucceeded ==
    \E s \in Sessions :
        /\ pc[s] = "idle"
        /\ ui[s].outcome = "success"
        /\ trace[s] # <<>>

\* C10: after a run that validation rejected, main() has rendered the
\* failure with one line per validation issue and no download.
ValidationErrorsRendered ==
    \A s \in Sessions :
        (pc[s] = "idle" /\ Status(validation[s]) = "error") =>
            /\ ui[s].outcome = "failed"
            /\ ui[s].errors = Messages(validation[s].errors.items)
            /\ ui[s].download = None

====
